---- MODULE Spec2Model ----
(***************************************************************************)
(* Twitch -> Gotify monitor (head.py): the token cache (get_twitch_token), *)
(* the status fetcher (get_stream_status), the notifier (send_gotify) and  *)
(* the monitor loop (main), as one state machine.                          *)
(*                                                                         *)
(* Encoding of Python values:                                              *)
(*   - a channel name is a positive integer; a login k as the platform     *)
(*     spells it is k (already lower case) or -k (another casing of the    *)
(*     same name); 0 is a login that is no configured channel;             *)
(*   - None is the string "None"; the token None is 0, a token is 1..;     *)
(*   - a dict is a function, its iteration order a sequence of keys;       *)
(*   - an HTTP exchange is drawn with \E from the outcomes the library     *)
(*     can produce: a response with a status code, or an exception         *)
(*     (connection error, timeout), written status 0.                      *)
(***************************************************************************)
EXTENDS Integers, Sequences, FiniteSets, TLC

\* ---------------------------------------------------------------- constants
\* Helix allows up to 100 logins per call (the range step and the slice width).
BatchLimit == 100
\* A cached token is reused only while more than 60 s from its expiry.
ExpiryMargin == 60
\* data.get("expires_in", 3600)
DefaultLifetime == 3600
\* POLL_SECONDS default
PollSeconds == 60

\* ------------------------------------------------------------------- bounds
\* Longest configured channel list in the monitor runs.
MaxChannels == 2
\* Number of sleeps of the polling loop a monitor run goes through.
MaxSleeps == 2
\* The fetcher runs use lists of up to MaxBatches full batches plus one.
MaxBatches == 1

None == "None"
NoToken == 0
\* The access tokens the platform hands out: two opaque values, so that a
\* fresh token can differ from the cached one.
Tokens == {1, 2}
\* expires_in values the exchange reports (seconds); the field may be absent.
ExpiresInValues == {30, 120}
\* Status codes of a response; 0 stands for an exception raised by requests.
ConnError == 0
StatusCodes == {200, 401, 500}

VARIABLES
    channels,               \* CONFIG["CHANNELS"]
    TWITCH_TOKEN,           \* module global, NoToken when None
    TWITCH_TOKEN_EXPIRES,   \* module global
    now,                    \* time.time()
    pc,                     \* position of main
    last_status,            \* main: dict channel -> None | bool (empty before line 120)
    current,                \* main: the dict last assigned from get_stream_status
    todo,                   \* main: keys of current still to iterate, in dict order
    gpc,                    \* position of get_stream_status
    i,                      \* get_stream_status: batch start index
    token,                  \* get_stream_status: local token (the Authorization header)
    online,                 \* get_stream_status: local dict built so far
    reqs,                   \* log: streams requests of the call in progress (kept
                            \*      after a call that raised, until the next call)
    exch,                   \* log: get_twitch_token calls of that call
    sent,                   \* log: send_gotify calls of the current phase or cycle
    startups,               \* log: number of startup notifications of the run
    cycleStart,             \* log: last_status when the current poll cycle began
    cycleFetch,             \* log: "pending" | "ok" | "raised" for the current cycle
    prevFetch,              \* log: the previous poll cycle's fetch: [ok, map]
    baseline,               \* log: the baselining fetch: [ok, map]
    everOk,                 \* log: a fetch of the polling loop has returned
    notified,               \* log: per channel, the kinds of the polling loop's
                            \*      send_gotify calls that returned normally
    prevRaised              \* log: the channel whose send_gotify call raised in the
                            \*      last poll cycle whose fetch returned, 0 if none

vars == <<channels, TWITCH_TOKEN, TWITCH_TOKEN_EXPIRES, now, pc, last_status,
          current, todo, gpc, i, token, online, reqs, exch, sent, startups,
          cycleStart, cycleFetch, prevFetch, baseline, everOk, notified,
          prevRaised>>

tokenVars == <<TWITCH_TOKEN, TWITCH_TOKEN_EXPIRES>>
histVars == <<everOk, notified, prevRaised>>
mainVars == <<pc, last_status, current, todo, sent, startups, cycleStart,
              cycleFetch, prevFetch, baseline, histVars>>
fetchVars == <<gpc, i, token, online, reqs, exch>>

\* ------------------------------------------------------------------ helpers
Min(a, b) == IF a < b THEN a ELSE b
Range(s) == {s[k] : k \in DOMAIN s}
EmptyDict == <<>>
\* The log entry of a fetch that did not return / that returned the dict m.
NoFetch == [ok |-> FALSE, map |-> EmptyDict]
Fetched(m) == [ok |-> TRUE, map |-> m]

\* Mutant: the login is compared as the platform spells it.
Lower_AsSpelled(x) == x

\* str.lower() on a login.
Lower(x) == IF x < 0 THEN 0 - x ELSE x

\* The keys of a dict built by inserting the elements of s in order: each key
\* once, at the position of its first insertion.
RECURSIVE KeyOrder(_)
KeyOrder(s) ==
    IF s = <<>> THEN <<>>
    ELSE LET front == KeyOrder(SubSeq(s, 1, Len(s) - 1))
             last == s[Len(s)]
         IN  IF last \in Range(front) THEN front ELSE Append(front, last)

\* ------------------------------------------------------------ get_twitch_token
\* Mutant: the cached token is served until the very second of its expiry.
CacheValid_NoMargin(tok, exp, t) == tok # NoToken /\ t < exp

\* The cached token is served while it is set and more than ExpiryMargin from expiry.
CacheValid(tok, exp, t) == tok # NoToken /\ t < exp - ExpiryMargin

\* data.get("expires_in", 3600)
Lifetime(data) ==
    IF "expires_in" \in DOMAIN data THEN data.expires_in ELSE DefaultLifetime

\* The JSON bodies of a successful credential exchange.
ExchangeBodies ==
    {[access_token |-> t] : t \in Tokens}
    \cup {[access_token |-> t, expires_in |-> e] : t \in Tokens, e \in ExpiresInValues}

\* Mutant: the cache is cleared before the exchange request, so a failed
\* exchange leaves it empty.
get_twitch_token_ClearsFirst(tok, exp, t) ==
    IF CacheValid(tok, exp, t)
    THEN {[raised |-> FALSE, ret |-> tok, tok |-> tok, exp |-> exp, posts |-> 0,
           status |-> 200]}
    ELSE {[raised |-> FALSE, ret |-> d.access_token, tok |-> d.access_token,
           exp |-> t + Lifetime(d), posts |-> 1, status |-> 200] : d \in ExchangeBodies}
         \cup
         {[raised |-> TRUE, ret |-> NoToken, tok |-> NoToken, exp |-> 0, posts |-> 1,
           status |-> s] : s \in {ConnError, 500}}

\* Every outcome of one get_twitch_token() call made at time t with the cache
\* (tok, exp): what it returns or that it raised, the cache afterwards, and
\* the number of exchange requests it posted.
get_twitch_token(tok, exp, t) ==
    IF CacheValid(tok, exp, t)
    THEN {[raised |-> FALSE, ret |-> tok, tok |-> tok, exp |-> exp, posts |-> 0,
           status |-> 200]}
    ELSE {[raised |-> FALSE, ret |-> d.access_token, tok |-> d.access_token,
           exp |-> t + Lifetime(d), posts |-> 1, status |-> 200] : d \in ExchangeBodies}
         \cup
         {[raised |-> TRUE, ret |-> NoToken, tok |-> tok, exp |-> exp, posts |-> 1,
           status |-> s] : s \in {ConnError, 500}}

\* ----------------------------------------------------------- get_stream_status
\* Mutant: a slice one element too wide, channels[i:i + 101].
Batch_TooWide(ch, lo) == SubSeq(ch, lo + 1, Min(lo + BatchLimit + 1, Len(ch)))

\* channels[i:i + 100]
Batch(ch, lo) == SubSeq(ch, lo + 1, Min(lo + BatchLimit, Len(ch)))

\* Mutant: the status of the response is not checked.
RaiseForStatus_Unchecked(status) == FALSE

\* r.raise_for_status()
RaiseForStatus(status) == status >= 400

\* {s["user_login"].lower() for s in data}
OnlineNames(data) == {Lower(e) : e \in data}

\* for name in batch: online[name] = name in online_names
MergeBatch(onl, batch, data) ==
    [n \in (DOMAIN onl) \cup Range(batch) |->
        IF n \in Range(batch) THEN n \in OnlineNames(data) ELSE onl[n]]

\* The "data" lists the platform may answer a batch with, as sets of logins:
\* nobody live, the first channel of the batch live, the last one live and
\* spelled in another casing, the whole batch live, or a login not asked for.
ResponseData(batch) ==
    LET n == Len(batch)
    IN  {{}, {batch[1]}, {0 - batch[n]}, Range(batch), {0}}

\* Lines 79-84 on the final response of the batch at i.
FinishBatch(status, data) ==
    IF RaiseForStatus(status)
    THEN /\ gpc' = "raised"
         /\ UNCHANGED <<i, online>>
    ELSE /\ online' = MergeBatch(online, Batch(channels, i), data)
         /\ i' = i + BatchLimit
         /\ gpc' = IF i + BatchLimit < Len(channels) THEN "request" ELSE "returned"

\* Line 64 (and the headers of lines 65-69): the call's first get_twitch_token().
GetToken ==
    /\ gpc = "token"
    /\ \E o \in get_twitch_token(TWITCH_TOKEN, TWITCH_TOKEN_EXPIRES, now) :
        /\ TWITCH_TOKEN' = o.tok
        /\ TWITCH_TOKEN_EXPIRES' = o.exp
        /\ exch' = Append(exch, [at |-> "call", posts |-> o.posts])
        /\ IF o.raised
           THEN gpc' = "raised" /\ UNCHANGED token
           ELSE /\ token' = o.ret
                /\ gpc' = IF 0 < Len(channels) THEN "request" ELSE "returned"
    /\ UNCHANGED <<channels, now, mainVars, i, online, reqs>>

\* Lines 71-75 and 79-83: the first request of the batch at i.
Request ==
    /\ gpc = "request"
    /\ LET batch == Batch(channels, i) IN
       \/ \* requests.get raises
          /\ reqs' = Append(reqs, [lo |-> i, n |-> Len(batch), attempt |-> 1,
                                   token |-> token, status |-> ConnError, data |-> {}])
          /\ gpc' = "raised"
          /\ UNCHANGED <<i, online>>
       \/ \* 401: go on to the refresh of line 76
          /\ reqs' = Append(reqs, [lo |-> i, n |-> Len(batch), attempt |-> 1,
                                   token |-> token, status |-> 401, data |-> {}])
          /\ gpc' = "refresh"
          /\ UNCHANGED <<i, online>>
       \/ \E s \in StatusCodes \ {401}, d \in ResponseData(batch) :
          /\ s = 200 \/ d = {}
          /\ reqs' = Append(reqs, [lo |-> i, n |-> Len(batch), attempt |-> 1,
                                   token |-> token, status |-> s, data |-> d])
          /\ FinishBatch(s, d)
    /\ UNCHANGED <<channels, tokenVars, now, mainVars, token, exch>>

\* Lines 76-77: get_twitch_token() after a 401.
Refresh ==
    /\ gpc = "refresh"
    /\ \E o \in get_twitch_token(TWITCH_TOKEN, TWITCH_TOKEN_EXPIRES, now) :
        /\ TWITCH_TOKEN' = o.tok
        /\ TWITCH_TOKEN_EXPIRES' = o.exp
        /\ exch' = Append(exch, [at |-> "refresh", posts |-> o.posts])
        /\ IF o.raised
           THEN gpc' = "raised" /\ UNCHANGED token
           ELSE gpc' = "retry" /\ token' = o.ret
    /\ UNCHANGED <<channels, now, mainVars, i, online, reqs>>

\* Lines 78-83: the one retry of the batch at i.
Retry ==
    /\ gpc = "retry"
    /\ LET batch == Batch(channels, i) IN
       \/ /\ reqs' = Append(reqs, [lo |-> i, n |-> Len(batch), attempt |-> 2,
                                   token |-> token, status |-> ConnError, data |-> {}])
          /\ gpc' = "raised"
          /\ UNCHANGED <<i, online>>
       \/ \E s \in StatusCodes, d \in ResponseData(batch) :
          /\ s = 200 \/ d = {}
          /\ reqs' = Append(reqs, [lo |-> i, n |-> Len(batch), attempt |-> 2,
                                   token |-> token, status |-> s, data |-> d])
          /\ FinishBatch(s, d)
    /\ UNCHANGED <<channels, tokenVars, now, mainVars, token, exch>>

\* get_stream_status returned to main: its locals are gone.
LeaveFetch ==
    /\ gpc' = "idle"
    /\ i' = 0
    /\ token' = NoToken
    /\ online' = EmptyDict
    /\ reqs' = <<>>
    /\ exch' = <<>>

\* Entering get_stream_status(channels): fresh locals, fresh logs.
EnterFetch ==
    /\ gpc' = "token"
    /\ i' = 0
    /\ token' = NoToken
    /\ online' = EmptyDict
    /\ reqs' = <<>>
    /\ exch' = <<>>

\* ------------------------------------------------------------------ send_gotify
\* What the gateway POST can do: answer 200, answer another status, or fail
\* (requests.post raises on a connection error or a timeout).
SendOutcomes == {200, 500, ConnError}

\* Mutant: the POST is wrapped in a try/except that logs and swallows.
send_gotify_raises_Swallowed(outcome) == FALSE

\* send_gotify has no try/except: an exception of requests.post leaves it;
\* a response, whatever its status, is only logged.
send_gotify_raises(outcome) == outcome = ConnError

\* The log entry of one send_gotify call, with whether the call raised.
Notification(kind, name, priority, outcome) ==
    [kind |-> kind, name |-> name, priority |-> priority, outcome |-> outcome,
     raised |-> send_gotify_raises(outcome)]

\* ------------------------------------------------------------------------ main
\* The table's values: None, or the bool observed (True = "Online").
Status(b) == IF b THEN "Online" ELSE "Offline"

\* Channel lists CONFIG["CHANNELS"] can hold, up to renaming of the channels:
\* any length up to MaxChannels, repeated names included; the first channel
\* is named 1 and each new name is the next integer.
RECURSIVE ListsOfLength(_)
ListsOfLength(n) ==
    IF n = 0 THEN {<<>>}
    ELSE {Append(s, c) : s \in ListsOfLength(n - 1), c \in 1..n}

Canonical(s) ==
    \A k \in 1..Len(s) : \A c \in 1..(s[k] - 1) : \E j \in 1..(k - 1) : s[j] = c

MonitorLists ==
    {s \in UNION {ListsOfLength(n) : n \in 0..MaxChannels} : Canonical(s)}

Init ==
    /\ channels \in MonitorLists
    /\ TWITCH_TOKEN = NoToken
    /\ TWITCH_TOKEN_EXPIRES = 0
    /\ now = 0
    /\ pc = "start"
    /\ last_status = EmptyDict
    /\ current = EmptyDict
    /\ todo = <<>>
    /\ gpc = "idle"
    /\ i = 0
    /\ token = NoToken
    /\ online = EmptyDict
    /\ reqs = <<>>
    /\ exch = <<>>
    /\ sent = <<>>
    /\ startups = 0
    /\ cycleStart = EmptyDict
    /\ cycleFetch = "pending"
    /\ prevFetch = NoFetch
    /\ baseline = NoFetch
    /\ everOk = FALSE
    /\ notified = [c \in Range(channels) |-> <<>>]
    /\ prevRaised = 0

\* Mutant: the check for an empty channel list is missing.
NoChannels_Unchecked(ch) == FALSE

\* Line 100: if not channels
NoChannels(ch) == ch = <<>>

\* Lines 99-102: no channels configured is fatal.
Start ==
    /\ pc = "start"
    /\ pc' = IF NoChannels(channels) THEN "exited" ELSE "startup"
    /\ UNCHANGED <<histVars, channels, tokenVars, now, last_status, current, todo, sent,
                   startups, cycleStart, cycleFetch, prevFetch, baseline, fetchVars>>

\* Mutant: the startup notification is left out.
StartupNotify_Skipped ==
    /\ pc = "startup"
    /\ pc' = "baseline_fetch"
    /\ EnterFetch
    /\ UNCHANGED <<histVars, channels, tokenVars, now, last_status, current, todo, sent,
                   startups, cycleStart, cycleFetch, prevFetch, baseline>>

\* Lines 104-111: the startup notification (outside any try), then the call
\* of the baselining fetch.
StartupNotify ==
    /\ pc = "startup"
    /\ \E o \in SendOutcomes :
        /\ sent' = Append(sent, Notification("started", 0, 1, o))
        /\ startups' = startups + 1
        /\ IF send_gotify_raises(o)
           THEN pc' = "crashed" /\ UNCHANGED fetchVars
           ELSE pc' = "baseline_fetch" /\ EnterFetch
    /\ UNCHANGED <<histVars, channels, tokenVars, now, last_status, current, todo,
                   cycleStart, cycleFetch, prevFetch, baseline>>

\* Line 111: the baselining fetch returned.
BaselineFetched ==
    /\ pc = "baseline_fetch"
    /\ gpc = "returned"
    /\ current' = online
    /\ todo' = KeyOrder(channels)
    /\ baseline' = Fetched(online)
    /\ pc' = "baseline_iter"
    /\ LeaveFetch
    /\ UNCHANGED <<histVars, channels, tokenVars, now, last_status, sent, startups,
                   cycleStart, cycleFetch, prevFetch>>

\* Lines 117-118: the baselining fetch raised.
BaselineRaised ==
    /\ pc = "baseline_fetch"
    /\ gpc = "raised"
    /\ pc' = "init_table"
    /\ gpc' = "idle"
    /\ UNCHANGED <<histVars, channels, tokenVars, now, last_status, current, todo, sent,
                   startups, cycleStart, cycleFetch, prevFetch, baseline,
                   i, token, online, reqs, exch>>

\* Lines 112-118: one iteration of the baselining loop.
BaselineIter ==
    /\ pc = "baseline_iter"
    /\ LET name == Head(todo) IN
       IF current[name]
       THEN \E o \in SendOutcomes :
              /\ sent' = Append(sent, Notification("already_live", name, 4, o))
              /\ todo' = Tail(todo)
              /\ pc' = IF send_gotify_raises(o) \/ Tail(todo) = <<>>
                       THEN "init_table" ELSE "baseline_iter"
       ELSE /\ todo' = Tail(todo)
            /\ pc' = IF Tail(todo) = <<>> THEN "init_table" ELSE "baseline_iter"
            /\ UNCHANGED sent
    /\ UNCHANGED <<histVars, channels, tokenVars, now, last_status, current, startups,
                   cycleStart, cycleFetch, prevFetch, baseline, fetchVars>>

\* Mutant: the table is filled from the baselining fetch when it returned.
NewTable_FromBaseline ==
    [c \in Range(channels) |-> IF baseline.ok THEN Status(baseline.map[c]) ELSE None]

\* Line 120: last_status = {c: None for c in channels}
NewTable == [c \in Range(channels) |-> None]

\* Lines 120-125: the table is created, the loop is entered and the first
\* poll cycle calls the fetch.
InitTable ==
    /\ pc = "init_table"
    /\ last_status' = NewTable
    /\ cycleStart' = NewTable
    /\ cycleFetch' = "pending"
    /\ sent' = <<>>
    /\ todo' = <<>>
    /\ pc' = "poll_fetch"
    /\ EnterFetch
    /\ UNCHANGED <<histVars, channels, tokenVars, now, current, startups, prevFetch, baseline>>

\* Line 125: the cycle's fetch returned.
PollFetched ==
    /\ pc = "poll_fetch"
    /\ gpc = "returned"
    /\ current' = online
    /\ todo' = KeyOrder(channels)
    /\ cycleFetch' = "ok"
    /\ everOk' = TRUE
    /\ pc' = "poll_iter"
    /\ LeaveFetch
    /\ UNCHANGED <<notified, prevRaised, channels, tokenVars, now, last_status, sent, startups,
                   cycleStart, prevFetch, baseline>>

\* Mutant: a failed fetch forgets what was known.
TableAfterFetchError_Reset == NewTable

\* Lines 136-137: the except clause leaves the table as it is.
TableAfterFetchError == last_status

\* Lines 136-137: the cycle's fetch raised; log and go to sleep.
PollRaised ==
    /\ pc = "poll_fetch"
    /\ gpc = "raised"
    /\ cycleFetch' = "raised"
    /\ last_status' = TableAfterFetchError
    /\ pc' = "sleep"
    /\ gpc' = "idle"
    /\ UNCHANGED <<histVars, channels, tokenVars, now, current, todo, sent, startups,
                   cycleStart, prevFetch, baseline, i, token, online, reqs, exch>>

\* Lines 131-134: the notification a known entry and a new value call for,
\* as <<kind, priority>>, or <<>> for none.
Transition(previous, isOnline) ==
    IF isOnline /\ previous # "Online" THEN <<"live", 5>>
    ELSE IF ~isOnline /\ previous = "Online" THEN <<"offline", 3>>
    ELSE <<>>

\* Mutant: an entry that is None is treated like a known one.
IsBaseline_Unchecked(previous) == FALSE

\* Line 128: if previous is None
IsBaseline(previous) == previous = None

\* Mutant: the new value is not stored after the notification.
TableAfterSend_NotRecorded(tbl, name, isOnline) == tbl

\* Line 135, reached when send_gotify returned: last_status[name] = online
TableAfterSend(tbl, name, isOnline) == [tbl EXCEPT ![name] = Status(isOnline)]

\* Mutant: the new value is stored before the notification is sent.
TableOnSendError_RecordedFirst(tbl, name, isOnline) ==
    [tbl EXCEPT ![name] = Status(isOnline)]

\* send_gotify raised at line 132 or 134: line 135 is not reached.
TableOnSendError(tbl, name, isOnline) == tbl

\* Lines 126-137: one iteration of the polling loop's for.
PollIter ==
    /\ pc = "poll_iter"
    /\ LET name == Head(todo)
           previous == last_status[name]
           tr == Transition(previous, current[name])
           next == IF Tail(todo) = <<>> THEN "sleep" ELSE "poll_iter"
       IN  IF IsBaseline(previous) \/ tr = <<>>
           THEN /\ last_status' = [last_status EXCEPT ![name] = Status(current[name])]
                /\ todo' = Tail(todo)
                /\ pc' = next
                /\ UNCHANGED <<sent, notified>>
           ELSE \E o \in SendOutcomes :
                  /\ sent' = Append(sent, Notification(tr[1], name, tr[2], o))
                  /\ IF send_gotify_raises(o)
                     THEN /\ pc' = "sleep"
                          /\ last_status' = TableOnSendError(last_status, name, current[name])
                          /\ UNCHANGED <<todo, notified>>
                     ELSE /\ last_status' = TableAfterSend(last_status, name, current[name])
                          /\ notified' = [notified EXCEPT ![name] = Append(@, tr[1])]
                          /\ todo' = Tail(todo)
                          /\ pc' = next
    /\ UNCHANGED <<channels, tokenVars, now, current, startups, cycleStart,
                   cycleFetch, prevFetch, baseline, everOk, prevRaised, fetchVars>>

\* Line 138, then lines 123-125: sleep, then the next cycle calls the fetch.
\* The channel whose send_gotify call raised and ended the current cycle's
\* loop, 0 when none did.
RaisedAt ==
    IF sent # <<>> /\ sent[Len(sent)].raised THEN sent[Len(sent)].name ELSE 0

Sleep ==
    /\ pc = "sleep"
    /\ now < MaxSleeps * PollSeconds
    /\ now' = now + PollSeconds
    /\ prevFetch' = IF cycleFetch = "ok" THEN Fetched(current) ELSE NoFetch
    /\ prevRaised' = IF cycleFetch = "ok" THEN RaisedAt ELSE prevRaised
    /\ cycleStart' = last_status
    /\ cycleFetch' = "pending"
    /\ sent' = <<>>
    /\ todo' = <<>>
    /\ pc' = "poll_fetch"
    /\ EnterFetch
    /\ UNCHANGED <<everOk, notified, channels, tokenVars, last_status, current, startups, baseline>>

Next ==
    \/ Start
    \/ StartupNotify
    \/ GetToken
    \/ Request
    \/ Refresh
    \/ Retry
    \/ BaselineFetched
    \/ BaselineRaised
    \/ BaselineIter
    \/ InitTable
    \/ PollFetched
    \/ PollRaised
    \/ PollIter
    \/ Sleep

Spec == Init /\ [][Next]_vars

\* ------------------------------------------------ get_stream_status on its own
\* The lists the fetcher is applied to: short ones, lengths around the batch
\* limit, and MaxBatches full batches plus one; with distinct names (period =
\* length) or with a name that repeats inside a batch (period 1) or across
\* batches (period BatchLimit). The call is made once, at time 0, with the
\* cache empty, holding a token that is still valid, or holding one that is
\* within the margin of its expiry.
FetchLengths ==
    {1, 2, BatchLimit - 1, BatchLimit, BatchLimit + 1, MaxBatches * BatchLimit + 1}

PeriodicList(n, period) == [k \in 1..n |-> ((k - 1) % period) + 1]

FetchLists ==
    {PeriodicList(n, n) : n \in FetchLengths}
    \cup {PeriodicList(n, 1) : n \in {0, 2}}
    \cup {PeriodicList(BatchLimit + 1, BatchLimit)}

FetchCaches == {<<NoToken, 0>>, <<1, 120>>, <<1, 30>>}

InitFetch ==
    /\ channels \in FetchLists
    /\ \E c \in FetchCaches :
        /\ TWITCH_TOKEN = c[1]
        /\ TWITCH_TOKEN_EXPIRES = c[2]
    /\ now = 0
    /\ pc = "caller"
    /\ last_status = EmptyDict
    /\ current = None
    /\ todo = <<>>
    /\ gpc = "idle"
    /\ i = 0
    /\ token = NoToken
    /\ online = EmptyDict
    /\ reqs = <<>>
    /\ exch = <<>>
    /\ sent = <<>>
    /\ startups = 0
    /\ cycleStart = EmptyDict
    /\ cycleFetch = "pending"
    /\ prevFetch = NoFetch
    /\ baseline = NoFetch
    /\ everOk = FALSE
    /\ notified = [c \in Range(channels) |-> <<>>]
    /\ prevRaised = 0

\* current = get_stream_status(channels)
CallFetch ==
    /\ pc = "caller"
    /\ gpc = "idle"
    /\ EnterFetch
    /\ pc' = "called"
    /\ UNCHANGED <<histVars, channels, tokenVars, now, last_status, current, todo, sent,
                   startups, cycleStart, cycleFetch, prevFetch, baseline>>

\* The call returns its dict to the caller, or raises and assigns nothing.
FetchDone ==
    /\ pc = "called"
    /\ gpc \in {"returned", "raised"}
    /\ IF gpc = "returned"
       THEN current' = online /\ cycleFetch' = "ok"
       ELSE UNCHANGED current /\ cycleFetch' = "raised"
    /\ gpc' = "idle"
    /\ UNCHANGED <<histVars, channels, tokenVars, now, pc, last_status, todo, sent, startups,
                   cycleStart, prevFetch, baseline, i, token, online, reqs, exch>>

NextFetch ==
    \/ CallFetch
    \/ GetToken
    \/ Request
    \/ Refresh
    \/ Retry
    \/ FetchDone

SpecFetch == InitFetch /\ [][NextFetch]_vars

\* ------------------------------------------------- claims on get_stream_status
\* The list positions a logged request carried.
Positions(r) == (r.lo + 1)..(r.lo + r.n)

\* A logged request is the final response of its batch unless it is a first
\* attempt answered 401 (which is retried).
IsFinal(r) == r.attempt = 2 \/ r.status # 401

\* A batch that ended in a failure: its final response is no success.
BatchFailed(r) == IsFinal(r) /\ r.status # 200

\* The call is over and raised / returned.
CallRaised == gpc = "raised" \/ (gpc = "idle" /\ cycleFetch = "raised")
CallReturned == gpc = "returned" \/ (gpc = "idle" /\ cycleFetch = "ok")

\* The batch starts range(0, len(channels), 100) yields.
BatchStarts == {lo \in 0..Len(channels) : lo % BatchLimit = 0 /\ lo < Len(channels)}

\* C5: get_stream_status never turns a request failure into an offline
\* result. A batch whose final response is a failure is the last request of
\* the call and the call raises; a call that returns has a final response
\* with status 200 for every batch; and a call that raised hands its caller
\* no dict (the caller's variable is not assigned), whatever the batches
\* before the failing one had already put into the local dict.
C5_FailureNeverBecomesOffline ==
    /\ \A k \in 1..Len(reqs) :
          BatchFailed(reqs[k]) => (k = Len(reqs) /\ CallRaised)
    /\ CallReturned =>
          \A lo \in BatchStarts :
            \E k \in 1..Len(reqs) :
              reqs[k].lo = lo /\ IsFinal(reqs[k]) /\ reqs[k].status = 200
    /\ (pc = "called" /\ gpc = "idle") =>
          IF cycleFetch = "raised" THEN current = None ELSE current = online

\* C5 witness: the second batch failed after the first had succeeded and
\* filled the local dict; the caller got nothing.
C5_Witness ==
    /\ pc = "called" /\ gpc = "idle" /\ cycleFetch = "raised"
    /\ Len(reqs) >= 2
    /\ reqs[1].status = 200
    /\ BatchFailed(reqs[Len(reqs)])
    /\ online # EmptyDict
    /\ current = None

\* C6 as claimed: every get_twitch_token() call made after a 401 posts
\* exactly one credential-exchange request, whatever the cache holds.
C6_RefreshPostsOneExchange ==
    \A k \in 1..Len(exch) : exch[k].at = "refresh" => exch[k].posts = 1

\* C9: batching. Every streams request carries at most 100 identifiers; and
\* when the call returns, every position of the input list was sent in
\* exactly one batch (a batch retried after a 401 is the same batch, named
\* by its start index), and the keys of the returned dict are exactly the
\* input channels.
C9_Batching ==
    /\ \A k \in 1..Len(reqs) : reqs[k].n <= BatchLimit /\ reqs[k].n >= 1
    /\ CallReturned =>
          /\ \A p \in 1..Len(channels) :
                Cardinality({reqs[k].lo : k \in {j \in 1..Len(reqs) :
                                                  p \in Positions(reqs[j])}}) = 1
          /\ DOMAIN online = Range(channels)

\* C9 witness: a list longer than the batch limit was fetched in several batches.
C9_Witness ==
    /\ CallReturned
    /\ Len(channels) > BatchLimit
    /\ Cardinality({reqs[k].lo : k \in 1..Len(reqs)}) >= 2

\* Whether the response's data names the channel: it holds the login name
\* itself or its other casing (written 0 - name).
InData(name, data) == name \in data \/ (0 - name) \in data

\* C10: after a batch's successful response is processed, each channel of
\* the batch is mapped to true iff its identifier is the lower-cased
\* user_login of some entry of that response, to false otherwise (the entry
\* stands until a later batch that holds the same identifier replaces it);
\* and a successful response never makes the call raise.
C10_OnlineIffInResponse ==
    /\ \A k \in 1..Len(reqs) :
          reqs[k].status = 200 =>
            LET replaced == UNION {{channels[q] : q \in Positions(reqs[j])} :
                                   j \in {m \in (k + 1)..Len(reqs) : reqs[m].status = 200}}
            IN  \A p \in Positions(reqs[k]) :
                  channels[p] \notin replaced =>
                    /\ channels[p] \in DOMAIN online
                    /\ online[channels[p]] = InData(channels[p], reqs[k].data)
    /\ (reqs # <<>> /\ reqs[Len(reqs)].status = 200) => ~CallRaised

\* C10 witness: a returned dict with a channel live under another casing and
\* a channel that was absent from the response and is mapped to false.
C10_Witness ==
    /\ CallReturned
    /\ \E k \in 1..Len(reqs) :
          /\ reqs[k].status = 200
          /\ \E e \in reqs[k].data : e < 0 /\ online[0 - e]
    /\ \E n \in DOMAIN online : ~online[n]


\* --------------------------------------------------------- claims on the monitor
\* The send_gotify calls of the current cycle made for channel c.
SentFor(c) == {k \in 1..Len(sent) : sent[k].name = c}

\* A poll cycle is over: main is at the sleep of line 138.
AtSleep == pc = "sleep"

\* C1 as claimed: at the end of every poll cycle whose fetch succeeded, for
\* every channel whose entry was known when the cycle began: one
\* notification was dispatched for it if the observed value differs from the
\* stored one ("live" with priority 5 from Offline, "offline" with priority
\* 3 from Online), none otherwise, and the entry now equals the observed value.
C1_TransitionCorrectness ==
    (AtSleep /\ cycleFetch = "ok") =>
      \A c \in DOMAIN cycleStart :
        cycleStart[c] # None =>
          /\ Cardinality(SentFor(c)) =
                (IF cycleStart[c] # Status(current[c]) THEN 1 ELSE 0)
          /\ \A k \in SentFor(c) :
                IF current[c]
                THEN sent[k].kind = "live" /\ sent[k].priority = 5
                ELSE sent[k].kind = "offline" /\ sent[k].priority = 3
          /\ last_status[c] = Status(current[c])

\* The first poll cycle is about to start: the table was just created.
EnteringLoop == pc = "poll_fetch" /\ now = 0

\* C2 as claimed: when the baselining fetch succeeded, the table entering the
\* polling loop holds the value that fetch reported for every channel.
C2_BaselineStored ==
    (EnteringLoop /\ baseline.ok) =>
      \A c \in Range(channels) : last_status[c] = Status(baseline.map[c])

\* C3 as claimed: a poll cycle whose fetch succeeded with the same result as
\* the successful fetch of the cycle before it dispatches no notification.
C3_Idempotence ==
    (AtSleep /\ cycleFetch = "ok" /\ prevFetch.ok /\ prevFetch.map = current)
      => sent = <<>>

\* C4: a poll cycle whose fetch raised ends at the sleep with the table as
\* it was when the cycle began and with no notification dispatched; the
\* step that handles the error changes neither and goes to the sleep, not
\* out of the loop; and the sleep is followed by the next cycle's fetch,
\* with the table still unchanged.
C4_FetchErrorSkipsCycle ==
    /\ [](AtSleep /\ cycleFetch = "raised" => last_status = cycleStart /\ sent = <<>>)
    /\ [][(pc = "poll_fetch" /\ gpc = "raised") =>
            (pc' = "sleep" /\ last_status' = last_status /\ sent' = sent)]_vars
    /\ [][(AtSleep /\ cycleFetch = "raised") =>
            (pc' = "poll_fetch" /\ gpc' = "token" /\ now' = now + PollSeconds
             /\ last_status' = last_status)]_vars

\* C4 witness: a cycle whose fetch raised on the retry after a 401, with a
\* table that already held known entries, is at its sleep.
C4_Witness ==
    /\ AtSleep /\ cycleFetch = "raised"
    /\ \E c \in DOMAIN last_status : last_status[c] # None
    /\ Len(reqs) = 2
    /\ reqs[1].status = 401
    /\ reqs[2].status # 200
    /\ sent = <<>>

\* C7 as claimed: no send_gotify call raises, whatever the POST did.
C7_SendNeverRaises ==
    \A k \in 1..Len(sent) : ~sent[k].raised

\* C8 as claimed: with at least one channel configured nothing ends the
\* process: main is never terminated by an exception and never returns.
C8_OnlyConfigIsFatal ==
    channels # <<>> => pc \notin {"crashed", "exited"}

\* The baselining phase is over: main is at line 120.
BaseliningOver == pc = "init_table"

\* The "already live" notifications of the baselining phase for channel c.
AlreadyLiveFor(c) ==
    {k \in 1..Len(sent) : sent[k].kind = "already_live" /\ sent[k].name = c}

\* C11 as claimed: when the baselining fetch succeeded, exactly one "already
\* live" notification with priority 4 was dispatched for every channel it
\* reported online and none for a channel it reported offline.
C11_BaseliningNotifications ==
    (BaseliningOver /\ baseline.ok) =>
      \A c \in Range(channels) :
        /\ Cardinality(AlreadyLiveFor(c)) = (IF baseline.map[c] THEN 1 ELSE 0)
        /\ \A k \in AlreadyLiveFor(c) : sent[k].priority = 4

\* C12: with no channel configured main only returns: it dispatches no
\* notification, not even the startup one, makes no credential exchange and
\* no status fetch, and never reaches baselining or polling.
C12_ZeroChannelsDoNothing ==
    channels = <<>> =>
      /\ pc \in {"start", "exited"}
      /\ sent = <<>> /\ startups = 0
      /\ gpc = "idle" /\ reqs = <<>> /\ exch = <<>>
      /\ TWITCH_TOKEN = NoToken
      /\ last_status = EmptyDict

\* C12 witness: main has returned on an empty channel list.
C12_Witness == channels = <<>> /\ pc = "exited"

\* The "monitor started" notifications in the current log.
StartedIn(log) == {k \in 1..Len(log) : log[k].kind = "started"}

\* C14: with at least one channel configured exactly one startup
\* notification is dispatched in the whole run: none before main reaches
\* line 106, one ever after; it is the first thing sent, with priority 1 and
\* naming no channel; and until it is dispatched no credential exchange and
\* no status fetch has been made, so it cannot depend on a channel's state.
C14_OneStartupNotification ==
    /\ pc \in {"start", "startup"} =>
          /\ startups = 0 /\ sent = <<>>
          /\ gpc = "idle" /\ reqs = <<>> /\ exch = <<>>
          /\ TWITCH_TOKEN = NoToken
    /\ (channels # <<>> /\ pc \notin {"start", "startup"}) => startups = 1
    /\ pc \in {"crashed", "baseline_fetch", "baseline_iter", "init_table"} =>
          /\ StartedIn(sent) = {1}
          /\ sent[1].priority = 1 /\ sent[1].name = 0
    /\ pc \in {"poll_fetch", "poll_iter", "sleep"} => StartedIn(sent) = {}

\* C14 witness: a run in its second poll cycle or later, one startup
\* notification behind it.
C14_Witness == AtSleep /\ now > 0 /\ startups = 1

\* C15 as claimed: after every poll cycle whose fetch succeeded, the entry
\* of every configured channel equals the value observed in that cycle,
\* whatever became of the cycle's notifications.
C15_TableEqualsObserved ==
    (AtSleep /\ cycleFetch = "ok") =>
      \A c \in Range(channels) : last_status[c] = Status(current[c])

\* C16: at the end of a poll cycle whose fetch succeeded, every channel
\* whose entry was None when the cycle began has the observed value as its
\* entry, online or offline, and no notification was dispatched for it.
C16_UnknownAdoptsSilently ==
    (AtSleep /\ cycleFetch = "ok") =>
      \A c \in Range(channels) :
        cycleStart[c] = None =>
          last_status[c] = Status(current[c]) /\ SentFor(c) = {}

\* C16 witness: a cycle that began with unknown entries observed a channel
\* online and another offline.
C16_Witness ==
    /\ AtSleep /\ cycleFetch = "ok"
    /\ \E c \in Range(channels) : cycleStart[c] = None /\ current[c]
    /\ \E c \in Range(channels) : cycleStart[c] = None /\ ~current[c]

\* C18: at every sleep of the polling loop the table is all None when no
\* fetch of the loop has returned so far, and holds no None at all once one
\* has; a table that is partly None is never seen there.
C18_UnknownAllOrNone ==
    AtSleep =>
      IF everOk
      THEN \A c \in Range(channels) : last_status[c] # None
      ELSE \A c \in Range(channels) : last_status[c] = None

\* C18 witness: after the entries became known, a cycle's fetch raised and
\* the entries are still known at its sleep.
C18_Witness ==
    /\ AtSleep /\ everOk /\ cycleFetch = "raised"
    /\ Cardinality(Range(channels)) >= 2

\* C19: for every channel, the notifications of the polling loop whose
\* send_gotify call returned normally alternate between "live" and
\* "offline": no two in a row are of the same kind.
C19_Alternation ==
    \A c \in DOMAIN notified :
      \A k \in 1..(Len(notified[c]) - 1) : notified[c][k] # notified[c][k + 1]

\* C19 witness: a channel was notified live and later offline, or the converse.
C19_Witness ==
    \E c \in DOMAIN notified : Len(notified[c]) >= 2

\* The for loop of a poll cycle is running or over.
InLoop == pc \in {"poll_iter", "sleep"} /\ cycleFetch = "ok"

\* A known entry differs from what it was when the cycle began only if a
\* send_gotify call for that channel has returned in this cycle.
RecordedOnlyAfterSend ==
    InLoop =>
      \A c \in Range(channels) :
        (cycleStart[c] # None /\ last_status[c] # cycleStart[c]) =>
          \E k \in SentFor(c) : ~sent[k].raised

\* When a send_gotify call raised, the channel it was for heads the
\* channels left; those keep the entries they had when the cycle began,
\* the channels before them hold the observed values.
RaiseKeepsLaterEntries ==
    (AtSleep /\ cycleFetch = "ok" /\ RaisedAt # 0) =>
      /\ todo # <<>> /\ Head(todo) = RaisedAt
      /\ \A c \in Range(todo) : last_status[c] = cycleStart[c]
      /\ \A c \in Range(channels) \ Range(todo) :
            last_status[c] = Status(current[c])

\* The transition whose notification raised in the last cycle with a
\* successful fetch still holds in this cycle, whose fetch succeeded too.
PendingTransition ==
    /\ AtSleep /\ cycleFetch = "ok"
    /\ prevRaised # 0
    /\ cycleStart[prevRaised] # Status(current[prevRaised])

\* C20 as claimed: notify before record; a raise keeps the entry of its
\* channel and of the later ones; and the transition is dispatched again in
\* the next cycle with a successful fetch in which it still holds.
C20_NotifyBeforeRecord ==
    /\ RecordedOnlyAfterSend
    /\ RaiseKeepsLaterEntries
    /\ PendingTransition => SentFor(prevRaised) # {}

\* ------------------------------------------------ claims on get_twitch_token
\* get_stream_status holds the credential its last get_twitch_token() call
\* returned; the clock has not moved since that return.
HoldingToken == gpc \in {"request", "retry"}

\* The remaining validity of the cached credential.
ValidityLeft == TWITCH_TOKEN_EXPIRES - now

\* The last get_twitch_token() call served the cache / made an exchange.
ServedFromCache == exch[Len(exch)].posts = 0

\* C13 as claimed: every credential get_twitch_token returns has at least
\* 60 seconds of validity left when it is returned.
C13_ReturnedTokenHasMargin ==
    HoldingToken => ValidityLeft >= ExpiryMargin

\* C13, amended: the credential returned is the cached one; when it was
\* served from the cache it has more than 60 seconds left; when it was just
\* obtained it has the lifetime the exchange reported (3600 when it reported
\* none), whatever that is.
C13_CachedTokenHasMargin ==
    HoldingToken =>
      /\ token = TWITCH_TOKEN
      /\ token # NoToken
      /\ IF ServedFromCache
         THEN ValidityLeft > ExpiryMargin
         ELSE ValidityLeft \in ExpiresInValues \cup {DefaultLifetime}

\* C13 witness: in a later poll cycle a token is served from the cache.
C13_Witness ==
    HoldingToken /\ ServedFromCache /\ now > 0

\* A get_twitch_token() call ended in this step: its log entry.
TokenCallEnded == Len(exch') = Len(exch) + 1
EndedCall == exch'[Len(exch')]

\* C17: a get_twitch_token() call that raises has posted one exchange
\* request, no more, and leaves TWITCH_TOKEN and TWITCH_TOKEN_EXPIRES as they
\* were; the cache changes only in a call whose one exchange succeeded.
C17_FailedExchangeKeepsCache ==
    /\ [][(TokenCallEnded /\ gpc' = "raised") =>
            (EndedCall.posts = 1 /\ UNCHANGED tokenVars)]_vars
    /\ [][(tokenVars' # tokenVars) =>
            (TokenCallEnded /\ EndedCall.posts = 1 /\ gpc' # "raised")]_vars

\* C17 witness: the call's first get_twitch_token() found a stale token in
\* the cache, its exchange failed, and the stale token is still cached.
C17_Witness ==
    /\ gpc = "raised"
    /\ reqs = <<>>
    /\ Len(exch) = 1 /\ exch[1].posts = 1
    /\ TWITCH_TOKEN # NoToken

====
